---- MODULE Spec2Model ----
(***************************************************************************)
(* GreenWall: the publish state machine (github.go, PushToGitHub), the     *)
(* history stream builder (app.go, GenerateRepo) and the weighted language *)
(* selector (selectLanguageByRatio and its table of byte costs).                   *)
(*                                                                         *)
(* Three specifications share the module:                                  *)
(*   Spec     - one PushToGitHub invocation against a remote host          *)
(*   SpecGen  - one GenerateRepo invocation                                *)
(*   SpecSel  - selectLanguageByRatio applied to consecutive indices       *)
(***************************************************************************)
EXTENDS Integers, Sequences, FiniteSets, TLC

VARIABLES
    \* ---- session (oauth.go) ----
    userInfo,     \* a.userInfo: Nil or a UserInfo record
    \* ---- PushToGitHub ----
    pc,           \* position inside PushToGitHub
    req,          \* the PushRepoRequest of the invocation
    loc,          \* locals: repoURL, actualRepoName, remoteURL, targetBranch
    origin,       \* the URL of remote "origin" in the local repository
    dirs,         \* local directories that exist on disk
    remote,       \* the hosting side: repositories and their branches
    remote0,      \* the hosting side when the invocation started
    calls,        \* external calls issued by the invocation, in order
    ret,          \* what PushToGitHub returned
    outputs,      \* log entries and progress events written once the push URL exists
    \* ---- GenerateRepo ----
    gpc,          \* position inside GenerateRepo
    greq,         \* the GenerateRepoRequest
    languageConfigs, \* the validated, normalized language list
    contribs,     \* the filtered, date-sorted contribution list
    dayIdx,       \* index of the day being emitted (range loop)
    i,            \* the inner loop counter of the day
    stream,       \* the fast-import stream built so far
    nextMark,     \* next blob mark
    totalCommits, \* commits emitted so far
    gdirs,        \* directories GenerateRepo created that exist on disk
    gcalls,       \* external calls (file system, git) issued, in order
    gret,         \* what GenerateRepo returned
    \* ---- selector harness ----
    selCfg,       \* language list handed to selectLanguageByRatio
    selIdx,       \* next commit index
    selHist,      \* languages returned for indices 0 .. selIdx-1
    selRepeat,    \* the latest repeated call: its index and what it returned
    \* ---- validation and normalization harness ----
    normIn,       \* the language list of a multi-language request
    normPc,       \* "new", "rejected", "valid" or "normalized"
    normErr,      \* the error of validateLanguageConfigs, "nil" if none
    normOut       \* the list normalizeLanguageConfigs returned

pushVars == <<userInfo, pc, req, loc, origin, dirs, remote, remote0, calls, ret,
              outputs>>
genVars  == <<gpc, greq, languageConfigs, contribs, dayIdx, i, stream,
              nextMark, totalCommits, gdirs, gcalls, gret>>
selVars  == <<selCfg, selIdx, selHist, selRepeat>>
normVars == <<normIn, normPc, normErr, normOut>>
vars     == <<pushVars, genVars, selVars, normVars>>

----------------------------------------------------------------------------
(* Generic helpers *)

\* strings.Contains on strings modelled as sequences of characters
Contains(s, sub) ==
    \E k \in 0 .. (Len(s) - Len(sub)) : SubSeq(s, k + 1, k + Len(sub)) = sub

RECURSIVE SumSeq(_)
SumSeq(s) == IF s = <<>> THEN 0 ELSE Head(s) + SumSeq(Tail(s))

\* number of entries of sequence s that satisfy Test
CountIf(s, Test(_)) == Cardinality({k \in 1 .. Len(s) : Test(s[k])})

----------------------------------------------------------------------------
(* Session state: oauth.go *)

Nil == [Username |-> "", Token |-> "", isNil |-> TRUE]

User(u, t) == [Username |-> u, Token |-> t, isNil |-> FALSE]

\* the sessions the harness can install; a saved file may hold an empty token
Sessions == {User("alice", "tokA"), User("bob", "tokB"), User("alice", "")}

\* the account a token belongs to on the hosting side
TokenOwner(t) == IF t = "tokA" THEN "alice" ELSE IF t = "tokB" THEN "bob" ELSE ""

----------------------------------------------------------------------------
(* The hosting side and the local git repository: the collaborators that   *)
(* github.go drives through net/http and runGitCommand.                     *)

Branches == {"main", "dev"}

\* owner/name of every repository of the modelled host
FullNames == {<<"alice", "r1">>, <<"bob", "r1">>, <<"org", "r1">>}

\* a branch is absent, holds earlier unrelated history, or the generated one
NoRepoState  == [exists |-> FALSE, branches |-> [b \in Branches |-> "absent"]]
EmptyRepo    == [exists |-> TRUE,  branches |-> [b \in Branches |-> "absent"]]
UsedRepo     == [exists |-> TRUE,  branches |-> [b \in Branches |->
                                        IF b = "main" THEN "old" ELSE "absent"]]

RemoteInits == { [f \in FullNames |-> NoRepoState],
                 [f \in FullNames |-> EmptyRepo],
                 [f \in FullNames |-> UsedRepo] }

NoRemoteURL == [Token |-> "", Path |-> <<>>]

\* one external call: an HTTP request, a git command or os.RemoveAll
\* res is the result the caller saw: "nil"/"ok", or the error
Call(op, token, path, flag, branch, res) ==
    [op |-> op, token |-> token, path |-> path, flag |-> flag, branch |-> branch,
     res |-> res]

\* X-OAuth-Scopes header values, character by character
ScopeNone       == <<>>
ScopeRepo       == <<"r","e","p","o">>
ScopePublicRepo == <<"p","u","b","l","i","c","_","r","e","p","o">>
ScopeReadUser   == <<"r","e","a","d",":","u","s","e","r">>
ScopeUserGist   == <<"u","s","e","r",","," ","g","i","s","t">>
ScopeRepoStatus == <<"r","e","p","o",":","s","t","a","t","u","s">>
ScopeHeaders    == {ScopeNone, ScopeRepo, ScopePublicRepo, ScopeReadUser,
                    ScopeUserGist, ScopeRepoStatus}

\* what GET /user can answer
VerifyOutcomes == [net : {"ok", "err"}, status : {200, 401, 403, 500},
                   scopes : ScopeHeaders]

\* VerifyGitHubToken: "nil" or the error it returns
VerifyGitHubToken(u, o) ==
    IF u.isNil \/ u.Token = "" THEN "not_logged_in"
    ELSE IF o.net = "err" THEN "request_failed"
    ELSE IF o.status = 401 THEN "token_invalid_or_expired"
    ELSE IF o.status = 403 THEN "token_forbidden"
    ELSE IF o.status # 200 THEN "verify_failed_status"
    ELSE IF ~Contains(o.scopes, ScopeRepo) /\ ~Contains(o.scopes, ScopePublicRepo)
         THEN "token_lacks_repo_scope"
    ELSE "nil"

\* whether VerifyGitHubToken got as far as sending its request
VerifySends(u) == ~(u.isNil \/ u.Token = "")

\* what POST /user/repos can answer: the request never arrives, the host
\* refuses it, or the host creates the repository and the 201 body is then
\* read and decoded, or is lost on the way back
CreateOutcomes == {"net_err", "refused", "created", "created_body_lost"}

\* the host creates name under the token's account when it is a bare name
\* that does not exist yet
HostCanCreate(rem, u, name) ==
    /\ Len(name) = 1
    /\ <<TokenOwner(u.Token), name[1]>> \in FullNames
    /\ ~rem[<<TokenOwner(u.Token), name[1]>>].exists

HostCreated(o) == o \in {"created", "created_body_lost"}

\* CreateGitHubRepo: the error ("nil" if none) it returns
CreateGitHubRepoErr(u, o) ==
    IF u.isNil \/ u.Token = "" THEN "not_logged_in"
    ELSE IF o = "net_err" THEN "request_failed"
    ELSE IF o = "refused" THEN "create_failed_status"
    ELSE IF o = "created_body_lost" THEN "read_or_decode_failed"
    ELSE "nil"

\* the hosting side after CreateGitHubRepo's request
RemoteAfterCreate(rem, u, name, o) ==
    IF ~(u.isNil \/ u.Token = "") /\ HostCreated(o)
    THEN [rem EXCEPT ![<<TokenOwner(u.Token), name[1]>>] = EmptyRepo]
    ELSE rem

\* git push origin [-f|-u] main:branch can succeed only against a configured
\* remote whose repository exists, with a known token, and without -f only
\* onto a branch that does not hold other history
PushCanSucceed(rem, org, force, branch) ==
    /\ org # NoRemoteURL
    /\ org.Path \in FullNames
    /\ rem[org.Path].exists
    /\ TokenOwner(org.Token) # ""
    /\ (force \/ rem[org.Path].branches[branch] = "absent")

RemoteAfterPush(rem, org, branch) ==
    [rem EXCEPT ![org.Path].branches[branch] = "gen"]

\* git push origin --delete branch
DeleteCanSucceed(rem, org, branch) ==
    /\ org # NoRemoteURL
    /\ org.Path \in FullNames
    /\ rem[org.Path].exists
    /\ TokenOwner(org.Token) # ""
    /\ rem[org.Path].branches[branch] # "absent"

RemoteAfterDelete(rem, org, branch) ==
    [rem EXCEPT ![org.Path].branches[branch] = "absent"]

----------------------------------------------------------------------------
(* PushToGitHub: github.go *)

RepoPath == "tmp/green-wall/r1-1"

\* RepoName as its "/"-separated segments: a bare name or owner/name
RepoNames == {<<"r1">>, <<"org", "r1">>}

PushRequests ==
    [RepoPath : {RepoPath}, RepoName : RepoNames, Branch : {"", "main", "dev"},
     IsNewRepo : BOOLEAN, IsPrivate : BOOLEAN, ForcePush : BOOLEAN]

NoReq == [RepoPath |-> RepoPath, RepoName |-> <<"r1">>, Branch |-> "",
          IsNewRepo |-> FALSE, IsPrivate |-> FALSE, ForcePush |-> FALSE]

NoLoc == [repoURL |-> <<>>, actualRepoName |-> <<>>, remoteURL |-> NoRemoteURL,
          targetBranch |-> "", defaultBranch |-> ""]

NoRet == [returned |-> FALSE, Success |-> FALSE, Message |-> "", Detail |-> "",
          RepoURL |-> <<>>, err |-> "nil"]

\* return &PushRepoResponse{...}, nil
Response(ok, msg, detail, url) ==
    [returned |-> TRUE, Success |-> ok, Message |-> msg, Detail |-> detail,
     RepoURL |-> url, err |-> "nil"]

\* line 269
NotLoggedInResponse == Response(FALSE, "not_logged_in", "", <<>>)

\* line 274
VerifyFailedResponse(e) == Response(FALSE, "token_verify_failed", e, <<>>)

\* line 283
CreateFailedResponse(e) == Response(FALSE, "create_repo_failed", e, <<>>)

\* line 340: "push failed, tick force push if the remote already has content"
PushRejectedResponse == Response(FALSE, "push_failed_try_force", "", <<>>)

\* faulty variant: the return of line 336 is missing and line 346 answers
ForceFailedFallsThrough == Response(TRUE, "pushed", "", loc.repoURL)

\* line 336: "force push failed, check the branch protection settings"
ForceFailedResponse == Response(FALSE, "force_push_failed_check_protection", "", <<>>)

\* faulty variant: the return of line 274 is missing
AfterVerifyIgnoringError(e) == "resolve"

\* lines 273-275: where the result of the verification leads
AfterVerify(e) == IF e # "nil" THEN "done" ELSE "resolve"

\* strings.Contains(name, "/")
HasSlash(name) == Len(name) > 1

\* lines 289-293: the page URL of an existing repository
ExistingRepoURL(u, name) ==
    IF HasSlash(name) THEN <<"github.com">> \o name
    ELSE <<"github.com", u.Username>> \o name

\* lines 297-302: the push URL with the token embedded
BuildRemoteURL(u, name) ==
    IF HasSlash(name) THEN [Token |-> u.Token, Path |-> name]
    ELSE [Token |-> u.Token, Path |-> <<u.Username>> \o name]

\* lines 308-311
TargetBranch(r) == IF r.Branch = "" THEN "main" ELSE r.Branch

\* lines 314-323: the flag of the first push
FirstPushFlag(r) == IF r.ForcePush THEN "-f" ELSE "-u"

\* faulty variant: the recovery runs without looking at req.ForcePush
AfterFirstPushFailedAlwaysRecover(r) == "delete"

\* faulty variant: the recovery pushes again without deleting the branch
AfterFirstPushFailedSkipDelete(r) == IF r.ForcePush THEN "repush" ELSE "done"

\* lines 325-342: where a failed first push leads
AfterFirstPushFailed(r) == IF r.ForcePush THEN "delete" ELSE "done"

\* faulty variant: a failed recovery starts over
AfterRePushFailedRetry == "push"

\* lines 333-337: where a failed second push leads
AfterRePushFailed == "done"

\* os.RemoveAll(req.RepoPath) before the returns of lines 335, 339 and 345
RemoveOnPushExit(d, r) == d \ {r.RepoPath}

RemoveCall(r) == Call("remove_all", "", <<r.RepoPath>>, "", "", "ok")

\* lines 260-270: entry and the login check
PushEnter(r) ==
    /\ pc = "idle"
    /\ req' = r
    /\ calls' = <<>>
    /\ IF userInfo.isNil \/ userInfo.Token = ""
       THEN /\ ret' = NotLoggedInResponse
            /\ pc' = "done"
       ELSE /\ ret' = NoRet
            /\ pc' = "verify"
    /\ outputs' = <<>>
    /\ UNCHANGED <<userInfo, loc, origin, dirs, remote, remote0>>

\* lines 272-275: verify the token
PushVerify ==
    /\ pc = "verify"
    /\ \E o \in VerifyOutcomes :
         LET e == VerifyGitHubToken(userInfo, o) IN
         /\ calls' = IF VerifySends(userInfo)
                     THEN Append(calls, Call("http_verify", userInfo.Token, <<>>, "", "", e))
                     ELSE calls
         /\ ret' = IF e # "nil" THEN VerifyFailedResponse(e) ELSE ret
         /\ pc' = AfterVerify(e)
    /\ UNCHANGED <<userInfo, req, loc, origin, dirs, remote, remote0, outputs>>

\* lines 277-294: create the repository or resolve the existing one
PushResolve ==
    /\ pc = "resolve"
    /\ IF req.IsNewRepo
       THEN \E o \in CreateOutcomes, db \in Branches :
              LET e == CreateGitHubRepoErr(userInfo, o) IN
              /\ HostCreated(o) => HostCanCreate(remote, userInfo, req.RepoName)
              /\ remote' = RemoteAfterCreate(remote, userInfo, req.RepoName, o)
              /\ calls' = IF VerifySends(userInfo)
                          THEN Append(calls, Call("http_create", userInfo.Token,
                                   req.RepoName, IF req.IsPrivate THEN "private" ELSE "public", "", e))
                          ELSE calls
              /\ IF e # "nil"
                 THEN /\ ret' = CreateFailedResponse(e)
                      /\ pc' = "done"
                      /\ loc' = loc
                 ELSE /\ ret' = ret
                      /\ pc' = "configure"
                      /\ loc' = [loc EXCEPT
                                   !.repoURL = <<"github.com", TokenOwner(userInfo.Token)>> \o req.RepoName,
                                   !.actualRepoName = req.RepoName,
                                   !.defaultBranch = db]
       ELSE /\ remote' = remote
            /\ calls' = calls
            /\ ret' = ret
            /\ IF ~HasSlash(req.RepoName) /\ userInfo.isNil
               THEN pc' = "panic" /\ loc' = loc
               ELSE /\ pc' = "configure"
                    /\ loc' = [loc EXCEPT
                                 !.repoURL = ExistingRepoURL(userInfo, req.RepoName),
                                 !.actualRepoName = req.RepoName]
    /\ UNCHANGED <<userInfo, req, origin, dirs, remote0, outputs>>

\* lines 296-311: build the push URL, point origin at it, pick the branch
PushConfigure ==
    /\ pc = "configure"
    /\ IF userInfo.isNil
       THEN /\ pc' = "panic"
            /\ UNCHANGED <<loc, origin, calls>>
       ELSE LET url == BuildRemoteURL(userInfo, loc.actualRepoName) IN
            \E res \in {"add_ok", "add_failed_set_ok", "add_failed_set_failed"} :
              /\ res = "add_ok" => origin = NoRemoteURL
              /\ pc' = "push"
              /\ loc' = [loc EXCEPT !.remoteURL = url,
                                    !.targetBranch = TargetBranch(req)]
              /\ origin' = IF res = "add_failed_set_failed" THEN origin ELSE url
              /\ calls' = calls \o
                   <<Call("git_remote_add", url.Token, url.Path, "", "",
                          IF res = "add_ok" THEN "ok" ELSE "fail")>> \o
                   (IF res = "add_ok" THEN <<>>
                    ELSE <<Call("git_remote_set_url", url.Token, url.Path, "", "",
                                IF res = "add_failed_set_ok" THEN "ok" ELSE "fail")>>)
    /\ UNCHANGED <<userInfo, req, dirs, remote, remote0, ret, outputs>>

\* one log entry or progress event, and the push URL its text holds
Output(sink, line, url) == [sink |-> sink, line |-> line, url |-> url]

\* lines 318 and 322: the progress event names the target branch
FirstPushEvent(r) == Output("event", IF r.ForcePush THEN 318 ELSE 322, NoRemoteURL)

\* lines 328-329: the log entry and the progress event of the recovery
RecoveryOutputs == <<Output("log", 328, NoRemoteURL), Output("event", 329, NoRemoteURL)>>

\* app.go lines 530-535: the error of runGitCommand carries what git wrote to
\* stderr; a push that fails names no URL there or the URL of origin it was
\* told to reach ("could not read Password for 'https://<token>@github.com'")
GitStderrNames(org) == {NoRemoteURL, org}

\* line 334: LogError with zap.Error(err), err the error of the second push
AllPushesFailedLog(named) == Output("log", 334, named)

\* the success return of lines 344-350
SuccessResponse == Response(TRUE, "pushed", "", loc.repoURL)

\* lines 313-325 and the returns of 339-340 and 344-350: the first push
PushFirst ==
    /\ pc = "push"
    /\ \E ok \in BOOLEAN :
         /\ ok => PushCanSucceed(remote, origin, req.ForcePush, loc.targetBranch)
         /\ LET c == Call("git_push", "", <<"main", loc.targetBranch>>,
                          FirstPushFlag(req), loc.targetBranch,
                          IF ok THEN "ok" ELSE "fail") IN
            IF ok
            THEN /\ remote' = RemoteAfterPush(remote, origin, loc.targetBranch)
                 /\ dirs' = RemoveOnPushExit(dirs, req)
                 /\ calls' = calls \o <<c, RemoveCall(req)>>
                 /\ ret' = SuccessResponse
                 /\ pc' = "done"
            ELSE /\ remote' = remote
                 /\ IF AfterFirstPushFailed(req) = "done"
                    THEN /\ dirs' = RemoveOnPushExit(dirs, req)
                         /\ calls' = calls \o <<c, RemoveCall(req)>>
                         /\ ret' = PushRejectedResponse
                         /\ pc' = "done"
                    ELSE /\ dirs' = dirs
                         /\ calls' = Append(calls, c)
                         /\ ret' = ret
                         /\ pc' = AfterFirstPushFailed(req)
         /\ outputs' = outputs \o <<FirstPushEvent(req)>> \o
               (IF ~ok /\ AfterFirstPushFailed(req) # "done"
                THEN RecoveryOutputs ELSE <<>>)
    /\ UNCHANGED <<userInfo, req, loc, origin, remote0>>

\* faulty variant: a failed deletion ends the recovery
AfterDeleteChecked(res) == IF res = "ok" THEN "repush" ELSE "done"

\* lines 332-333: the deletion's result is dropped, the second push follows
AfterDelete(res) == "repush"

\* line 332: delete the remote branch; the result is not looked at
PushDeleteBranch ==
    /\ pc = "delete"
    /\ \E ok \in BOOLEAN :
         /\ ok => DeleteCanSucceed(remote, origin, loc.targetBranch)
         /\ remote' = IF ok THEN RemoteAfterDelete(remote, origin, loc.targetBranch)
                      ELSE remote
         /\ calls' = Append(calls, Call("git_push_delete", "", <<loc.targetBranch>>,
                               "--delete", loc.targetBranch,
                               IF ok THEN "ok" ELSE "fail"))
         /\ pc' = AfterDelete(IF ok THEN "ok" ELSE "fail")
    /\ UNCHANGED <<userInfo, req, loc, origin, dirs, remote0, ret, outputs>>

\* lines 333-337 and 344-350: the second push
PushAgain ==
    /\ pc = "repush"
    /\ \E ok \in BOOLEAN :
         /\ ok => PushCanSucceed(remote, origin, FALSE, loc.targetBranch)
         /\ LET c == Call("git_push", "", <<"main", loc.targetBranch>>, "-u",
                          loc.targetBranch, IF ok THEN "ok" ELSE "fail") IN
            IF ok
            THEN /\ remote' = RemoteAfterPush(remote, origin, loc.targetBranch)
                 /\ dirs' = RemoveOnPushExit(dirs, req)
                 /\ calls' = calls \o <<c, RemoveCall(req)>>
                 /\ ret' = SuccessResponse
                 /\ pc' = "done"
            ELSE /\ remote' = remote
                 /\ IF AfterRePushFailed = "done"
                    THEN /\ dirs' = RemoveOnPushExit(dirs, req)
                         /\ calls' = calls \o <<c, RemoveCall(req)>>
                         /\ ret' = ForceFailedResponse
                         /\ pc' = "done"
                    ELSE /\ dirs' = dirs
                         /\ calls' = Append(calls, c)
                         /\ ret' = ret
                         /\ pc' = AfterRePushFailed
         /\ IF ok THEN outputs' = outputs
            ELSE \E named \in GitStderrNames(origin) :
                    outputs' = Append(outputs, AllPushesFailedLog(named))
    /\ UNCHANGED <<userInfo, req, loc, origin, remote0>>

\* oauth.go SaveUserInfo: a login stores the session unless the file write fails
SaveUserInfo(u) ==
    /\ pc = "idle"
    /\ \E written \in BOOLEAN :
         userInfo' = IF written THEN u ELSE userInfo
    /\ UNCHANGED <<pc, req, loc, origin, dirs, remote, remote0, calls, ret, outputs>>

\* oauth.go Logout: clears the session unless removing the file fails
Logout ==
    /\ pc = "idle"
    /\ \E removed \in BOOLEAN :
         userInfo' = IF removed THEN Nil ELSE userInfo
    /\ UNCHANGED <<pc, req, loc, origin, dirs, remote, remote0, calls, ret, outputs>>

----------------------------------------------------------------------------
(* Language configuration: selection, validation, normalization *)

WeightScale == 10000

\* getLanguageCodeBytes: average bytes of one generated file per language
getLanguageCodeBytes(lang) ==
    CASE lang = "java"       -> 650
      [] lang = "python"     -> 650
      [] lang = "javascript" -> 550
      [] lang = "typescript" -> 950
      [] lang = "go"         -> 850
      [] lang = "rust"       -> 800
      [] lang = "cpp"        -> 750
      [] lang = "c"          -> 550
      [] lang = "csharp"     -> 720
      [] lang = "php"        -> 620
      [] lang = "ruby"       -> 600
      [] lang = "swift"      -> 650
      [] lang = "kotlin"     -> 720
      [] lang = "shell"      -> 450
      [] lang = "vue"        -> 1300
      [] lang = "html"       -> 900
      [] lang = "css"        -> 700
      [] lang = "scss"       -> 750
      [] lang = "sql"        -> 500
      [] lang = "markdown"   -> 30
      [] OTHER               -> 500

LanguageConfig(lang, ratio) == [Language |-> lang, Ratio |-> ratio]

\* faulty variant: the division of line 126 rounds up
EntryWeightRoundedUp(config) ==
    LET bytes == getLanguageCodeBytes(config.Language)
    IN  (config.Ratio * WeightScale + bytes - 1) \div bytes

\* faulty variant: the weight is the ratio, the byte cost left out
EntryWeightUncompensated(config) == IF config.Ratio < 1 THEN 1 ELSE config.Ratio

\* lines 126-130: the compensated weight of one entry with a positive ratio
EntryWeight(config) ==
    LET weight == (config.Ratio * WeightScale) \div getLanguageCodeBytes(config.Language)
    IN  IF weight < 1 THEN 1 ELSE weight

\* lines 116-137: the weighted list, entries with ratio <= 0 skipped
Weighted(configs) ==
    LET kept == SelectSeq(configs, LAMBDA config : ~(config.Ratio <= 0)) IN
    [k \in 1 .. Len(kept) |->
        [language |-> kept[k].Language, weight |-> EntryWeight(kept[k])]]

\* faulty variant: line 136 stores the weight where it should add it
TotalWeightOfLast(weighted) ==
    IF weighted = <<>> THEN 0 ELSE weighted[Len(weighted)].weight

RECURSIVE TotalWeight(_)
TotalWeight(weighted) ==
    IF weighted = <<>> THEN 0
    ELSE Head(weighted).weight + TotalWeight(Tail(weighted))

\* faulty variant: the comparison of line 148 off by one
PositionHitInclusive(position, cumulative) == position <= cumulative

\* line 148: whether the running total has passed the position
PositionHit(position, cumulative) == position < cumulative

\* faulty variant: the entries take turns, one commit each
WalkTakingTurns(weighted, k, cumulative, position) == (position % Len(weighted)) + 1

\* lines 146-151: the index of the first entry whose cumulative weight
\* exceeds position, from entry k on; 0 when the loop ends without one
RECURSIVE Walk(_, _, _, _)
Walk(weighted, k, cumulative, position) ==
    IF k > Len(weighted) THEN 0
    ELSE IF PositionHit(position, cumulative + weighted[k].weight) THEN k
    ELSE Walk(weighted, k + 1, cumulative + weighted[k].weight, position)

\* faulty variant: the position comes from a counter of the calls made so
\* far, kept outside the function, where line 143 takes the commit index
selectLanguageByCallCount(configs, commitIndex) ==
    IF Len(configs) = 0 THEN "markdown"
    ELSE IF Len(configs) = 1 THEN configs[1].Language
    ELSE LET weighted == Weighted(configs)
             totalWeight == TotalWeight(weighted)
         IN  IF totalWeight = 0 \/ Len(weighted) = 0 THEN configs[1].Language
             ELSE LET hit == Walk(weighted, 1, 0, Len(selHist) % totalWeight)
                  IN  IF hit = 0 THEN weighted[1].language
                      ELSE weighted[hit].language

\* faulty variant: the fallback of line 140 answers markdown
selectLanguageByRatioMarkdownFallback(configs, commitIndex) ==
    IF Len(configs) = 0 THEN "markdown"
    ELSE IF Len(configs) = 1 THEN configs[1].Language
    ELSE LET weighted == Weighted(configs)
             totalWeight == TotalWeight(weighted)
         IN  IF totalWeight = 0 \/ Len(weighted) = 0 THEN "markdown"
             ELSE LET hit == Walk(weighted, 1, 0, commitIndex % totalWeight)
                  IN  IF hit = 0 THEN weighted[1].language
                      ELSE weighted[hit].language

\* selectLanguageByRatio
selectLanguageByRatio(configs, commitIndex) ==
    IF Len(configs) = 0 THEN "markdown"
    ELSE IF Len(configs) = 1 THEN configs[1].Language
    ELSE LET weighted == Weighted(configs)
             totalWeight == TotalWeight(weighted)
         IN  IF totalWeight = 0 \/ Len(weighted) = 0 THEN configs[1].Language
             ELSE LET hit == Walk(weighted, 1, 0, commitIndex % totalWeight)
                  IN  IF hit = 0 THEN weighted[1].language
                      ELSE weighted[hit].language

RECURSIVE SumRatios(_)
SumRatios(configs) ==
    IF configs = <<>> THEN 0 ELSE Head(configs).Ratio + SumRatios(Tail(configs))

\* validateLanguageConfigs: "nil" or the error of the first failing check
EntryError(config) ==
    IF config.Language = "" THEN "language_empty"
    ELSE IF config.Ratio < 0 THEN "ratio_negative"
    ELSE IF config.Ratio > 100 THEN "ratio_above_100"
    ELSE "nil"

FirstEntryError(configs) ==
    LET failing == {k \in 1 .. Len(configs) : EntryError(configs[k]) # "nil"} IN
    IF failing = {} THEN "nil"
    ELSE EntryError(configs[CHOOSE k \in failing : \A j \in failing : k <= j])

validateLanguageConfigs(configs) ==
    IF Len(configs) = 0 THEN "no_language"
    ELSE IF FirstEntryError(configs) # "nil" THEN FirstEntryError(configs)
    ELSE IF SumRatios(configs) = 0 THEN "ratio_sum_zero"
    ELSE "nil"

\* faulty variant: the division of line 205 rounds up
normalizeLanguageConfigsRoundedUp(configs) ==
    IF Len(configs) = 0 THEN <<LanguageConfig("markdown", 100)>>
    ELSE LET totalRatio == SumRatios(configs) IN
         IF totalRatio >= 95 /\ totalRatio <= 105 THEN configs
         ELSE [k \in 1 .. Len(configs) |->
                 LanguageConfig(configs[k].Language,
                                (configs[k].Ratio * 100 + totalRatio - 1) \div totalRatio)]

\* faulty variant: the tolerance of line 197 is taken one too wide
normalizeLanguageConfigsWideTolerance(configs) ==
    IF Len(configs) = 0 THEN <<LanguageConfig("markdown", 100)>>
    ELSE LET totalRatio == SumRatios(configs) IN
         IF totalRatio >= 94 /\ totalRatio <= 106 THEN configs
         ELSE [k \in 1 .. Len(configs) |->
                 LanguageConfig(configs[k].Language,
                                (configs[k].Ratio * 100) \div totalRatio)]

\* normalizeLanguageConfigs
normalizeLanguageConfigs(configs) ==
    IF Len(configs) = 0 THEN <<LanguageConfig("markdown", 100)>>
    ELSE LET totalRatio == SumRatios(configs) IN
         IF totalRatio >= 95 /\ totalRatio <= 105 THEN configs
         ELSE [k \in 1 .. Len(configs) |->
                 LanguageConfig(configs[k].Language,
                                (configs[k].Ratio * 100) \div totalRatio)]

----------------------------------------------------------------------------
(* GenerateRepo: app.go *)

MaxDays  == 2
MaxCount == 2

SecondsPerDay == 86400

\* a date string YYYY-MM-DD as its three zero-padded fields
Date(y, m, d) == <<y, m, d>>

\* 2024-02-30 has the layout of a date and is none
Dates == {Date(2024, 2, 28), Date(2024, 2, 29), Date(2024, 2, 30)}

\* line 325: contribs[i].Date < contribs[j].Date, the byte order of two
\* strings of equal field widths
DateLess(a, b) ==
    \/ a[1] < b[1]
    \/ a[1] = b[1] /\ a[2] < b[2]
    \/ a[1] = b[1] /\ a[2] = b[2] /\ a[3] < b[3]

IsLeap(y) == (y % 4 = 0 /\ y % 100 # 0) \/ y % 400 = 0

DaysInMonth(y, m) ==
    IF m = 2 THEN (IF IsLeap(y) THEN 29 ELSE 28)
    ELSE IF m \in {4, 6, 9, 11} THEN 30 ELSE 31

\* line 338: whether time.Parse("2006-01-02", date) succeeds
DateParses(dt) ==
    /\ dt[2] \in 1 .. 12
    /\ dt[3] \in 1 .. DaysInMonth(dt[1], dt[2])

\* days from 1970-01-01 to the date (proleptic Gregorian calendar)
DaysFromCivil(dt) ==
    LET y   == IF dt[2] <= 2 THEN dt[1] - 1 ELSE dt[1]
        era == y \div 400
        yoe == y - era * 400
        mp  == IF dt[2] > 2 THEN dt[2] - 3 ELSE dt[2] + 9
        doy == (153 * mp + 2) \div 5 + dt[3] - 1
        doe == yoe * 365 + yoe \div 4 - yoe \div 100 + doy
    IN  era * 146097 + doe - 719468

\* faulty variant: the offset of line 362 counts from 1
CommitUnixOneBased(dt, k) == DaysFromCivil(dt) * SecondsPerDay + k + 1

\* lines 338, 362-363: parsedDate.Add(i seconds).Unix(), parsedDate at UTC midnight
CommitUnix(dt, k) == DaysFromCivil(dt) * SecondsPerDay + k

ContributionDay(dt, n) == [Date |-> dt, Count |-> n]

ContributionDays == [Date : Dates, Count : -1 .. MaxCount]

RECURSIVE SeqsUpTo(_, _)
SeqsUpTo(S, n) ==
    IF n = 0 THEN {<<>>}
    ELSE LET shorter == SeqsUpTo(S, n - 1) IN
         shorter \cup {Append(q, x) : q \in {r \in shorter : Len(r) = n - 1}, x \in S}

\* the language part of a request: MultiLanguage, LanguageConfigs, Language
LanguageInputs ==
    { [MultiLanguage |-> TRUE,  Language |-> "",
       LanguageConfigs |-> <<LanguageConfig("go", 50), LanguageConfig("python", 50)>>],
      [MultiLanguage |-> TRUE,  Language |-> "",
       LanguageConfigs |-> <<LanguageConfig("vue", 0), LanguageConfig("java", 1)>>],
      [MultiLanguage |-> TRUE,  Language |-> "",
       LanguageConfigs |-> <<LanguageConfig("vue", 0), LanguageConfig("java", 0)>>],
      [MultiLanguage |-> TRUE,  Language |-> "",
       LanguageConfigs |-> <<LanguageConfig("go", 101), LanguageConfig("python", 0)>>],
      [MultiLanguage |-> TRUE,  Language |-> "",
       LanguageConfigs |-> <<LanguageConfig("go", 50), LanguageConfig("python", -1)>>],
      [MultiLanguage |-> TRUE,  Language |-> "",
       LanguageConfigs |-> <<LanguageConfig("go", 50), LanguageConfig("", 50)>>],
      [MultiLanguage |-> TRUE,  Language |-> "go", LanguageConfigs |-> <<>>],
      [MultiLanguage |-> FALSE, Language |-> "",   LanguageConfigs |-> <<>>],
      [MultiLanguage |-> FALSE, Language |-> "rust",
       LanguageConfigs |-> <<LanguageConfig("go", 50), LanguageConfig("python", 50)>>] }

GenerateRequests ==
    { [MultiLanguage |-> l.MultiLanguage, Language |-> l.Language,
       LanguageConfigs |-> l.LanguageConfigs, Contributions |-> c] :
        l \in LanguageInputs, c \in SeqsUpTo(ContributionDays, MaxDays) }

GenRepoPath == "tmp/green-wall/r1-1"

NoGenRet == [returned |-> FALSE, err |-> "nil", RepoPath |-> "", CommitCount |-> 0]

GenError(e) == [returned |-> TRUE, err |-> e, RepoPath |-> "", CommitCount |-> 0]

\* lines 399-402
GenResponse(path, n) == [returned |-> TRUE, err |-> "nil", RepoPath |-> path, CommitCount |-> n]

GCall(op, res) == [op |-> op, res |-> res]

\* lines 189-220: the language list of the run and the validation error
UsesMultiLanguage(r) == r.MultiLanguage /\ Len(r.LanguageConfigs) > 0

LanguageError(r) ==
    IF UsesMultiLanguage(r) THEN validateLanguageConfigs(r.LanguageConfigs) ELSE "nil"

ResolvedLanguageConfigs(r) ==
    IF UsesMultiLanguage(r) THEN normalizeLanguageConfigs(r.LanguageConfigs)
    ELSE <<LanguageConfig(IF r.Language = "" THEN "markdown" ELSE r.Language, 100)>>

RECURSIVE SumCounts(_)
SumCounts(cs) == IF cs = <<>> THEN 0 ELSE Head(cs).Count + SumCounts(Tail(cs))

\* faulty variant: the loop of lines 228-234 looks at the first day only
ContributionsErrorFirstDayOnly(cs) ==
    IF Len(cs) = 0 THEN "no_contributions"
    ELSE IF cs[1].Count < 0 THEN "invalid_count"
    ELSE IF SumCounts(cs) = 0 THEN "no_commits"
    ELSE "nil"

\* lines 222-238: the checks of the contribution list, in the code's order:
\* the loop returns at the first negative count
ContributionsError(cs) ==
    IF Len(cs) = 0 THEN "no_contributions"
    ELSE IF \E k \in 1 .. Len(cs) : cs[k].Count < 0 THEN "invalid_count"
    ELSE IF SumCounts(cs) = 0 THEN "no_commits"
    ELSE "nil"

\* faulty variant: the filter of line 321 off by one
KeepsDayAboveOne(c) == c.Count > 1

\* lines 320-324: keep the days with commits
KeepsDay(c) == c.Count > 0

FilterDays(cs) == SelectSeq(cs, KeepsDay)

\* line 325: sort.Slice is not stable; every date-ordered arrangement of the
\* filtered days is a possible result
\* faulty variant: the sort of line 325 is missing
IsDateSortedAnyOrder(cs) == TRUE

IsDateSorted(cs) == \A k \in 1 .. Len(cs) - 1 : ~DateLess(cs[k + 1].Date, cs[k].Date)

SortedArrangements(cs) ==
    { q \in { [k \in 1 .. Len(cs) |-> cs[f[k]]] : f \in Permutations(1 .. Len(cs)) } :
        IsDateSorted(q) }

\* lines 330-331: the README blob
ReadmeBlob == [kind |-> "blob", mark |-> 1, lang |-> "readme", date |-> <<>>,
               ts |-> 0, n |-> 0, of |-> 0, refs |-> <<>>]

\* lines 351-354: the blob of one generated file
CodeBlob(mark, lang, day, k) ==
    [kind |-> "blob", mark |-> mark, lang |-> lang, date |-> day.Date,
     ts |-> 0, n |-> k + 1, of |-> day.Count, refs |-> <<>>]

\* faulty variant: line 371 names the mark after the blob's
CommitOfNextMark(mark, lang, day, k) ==
    [kind |-> "commit", mark |-> 0, lang |-> lang, date |-> day.Date,
     ts |-> CommitUnix(day.Date, k), n |-> k + 1, of |-> day.Count,
     refs |-> <<1, mark + 1>>]

\* lines 362-371: the commit; n/of are the numbers of its message
Commit(mark, lang, day, k) ==
    [kind |-> "commit", mark |-> 0, lang |-> lang, date |-> day.Date,
     ts |-> CommitUnix(day.Date, k), n |-> k + 1, of |-> day.Count,
     refs |-> <<1, mark>>]

\* lines 187-238: language handling and validation, before any side effect
GenEnter(r) ==
    /\ gpc = "idle"
    /\ greq' = r
    /\ gcalls' = <<>>
    /\ IF LanguageError(r) # "nil"
       THEN /\ gret' = GenError(LanguageError(r))
            /\ gpc' = "done"
            /\ languageConfigs' = r.LanguageConfigs
       ELSE /\ languageConfigs' = ResolvedLanguageConfigs(r)
            /\ IF ContributionsError(r.Contributions) # "nil"
               THEN /\ gret' = GenError(ContributionsError(r.Contributions))
                    /\ gpc' = "done"
               ELSE /\ gret' = NoGenRet
                    /\ gpc' = "mkdir"
    /\ UNCHANGED <<contribs, dayIdx, i, stream, nextMark, totalCommits, gdirs>>

\* lines 251-271: the base directory and the fresh repository directory
GenMakeDirs ==
    /\ gpc = "mkdir"
    /\ \E res \in {"ok", "base_failed", "temp_failed"} :
         /\ gcalls' = gcalls \o
               (IF res = "base_failed" THEN <<GCall("mkdir_base", "fail")>>
                ELSE <<GCall("mkdir_base", "ok"),
                       GCall("mkdir_temp", IF res = "ok" THEN "ok" ELSE "fail")>>)
         /\ gdirs' = IF res = "ok" THEN gdirs \cup {GenRepoPath} ELSE gdirs
         /\ gret' = IF res = "ok" THEN gret ELSE GenError("create_directory_failed")
         /\ gpc' = IF res = "ok" THEN "files" ELSE "done"
    /\ UNCHANGED <<greq, languageConfigs, contribs, dayIdx, i, stream, nextMark,
                   totalCommits>>

\* lines 275-298: README.md and the templates' additional files
GenWriteFiles ==
    /\ gpc = "files"
    /\ \E res \in {"ok", "readme_failed", "extra_failed"} :
         /\ gcalls' = gcalls \o
               (IF res = "readme_failed" THEN <<GCall("write_readme", "fail")>>
                ELSE <<GCall("write_readme", "ok"),
                       GCall("write_additional", IF res = "ok" THEN "ok" ELSE "fail")>>)
         /\ gret' = IF res = "ok" THEN gret ELSE GenError("write_file_failed")
         /\ gpc' = IF res = "ok" THEN "init" ELSE "done"
    /\ UNCHANGED <<greq, languageConfigs, contribs, dayIdx, i, stream, nextMark,
                   totalCommits, gdirs>>

\* lines 300-316: git init, the identity, and four settings whose result is
\* not looked at
GenGitInit ==
    /\ gpc = "init"
    /\ \E res \in {"ok", "init_failed", "name_failed", "email_failed"} :
         /\ gcalls' = gcalls \o
               (IF res = "init_failed" THEN <<GCall("git_init", "fail")>>
                ELSE IF res = "name_failed"
                     THEN <<GCall("git_init", "ok"), GCall("git_config_name", "fail")>>
                ELSE IF res = "email_failed"
                     THEN <<GCall("git_init", "ok"), GCall("git_config_name", "ok"),
                            GCall("git_config_email", "fail")>>
                ELSE <<GCall("git_init", "ok"), GCall("git_config_name", "ok"),
                       GCall("git_config_email", "ok"), GCall("git_config_tuning", "any")>>)
         /\ gret' = IF res = "ok" THEN gret ELSE GenError("git_failed")
         /\ gpc' = IF res = "ok" THEN "sort" ELSE "done"
    /\ UNCHANGED <<greq, languageConfigs, contribs, dayIdx, i, stream, nextMark,
                   totalCommits, gdirs>>

\* lines 318-335: filter, sort, and open the stream with the README blob
GenSort ==
    /\ gpc = "sort"
    /\ contribs' \in SortedArrangements(FilterDays(greq.Contributions))
    /\ stream' = <<ReadmeBlob>>
    /\ nextMark' = 2
    /\ totalCommits' = 0
    /\ dayIdx' = 1
    /\ i' = 0
    /\ gpc' = "day"
    /\ UNCHANGED <<greq, languageConfigs, gdirs, gcalls, gret>>

\* lines 337-341: the next day of the range loop and its date
GenDay ==
    /\ gpc = "day"
    /\ IF dayIdx > Len(contribs)
       THEN /\ gpc' = "import"
            /\ UNCHANGED <<gret, i>>
       ELSE IF ~DateParses(contribs[dayIdx].Date)
       THEN /\ gret' = GenError("invalid_date")
            /\ gpc' = "done"
            /\ i' = i
       ELSE /\ gpc' = "commit"
            /\ i' = 0
            /\ gret' = gret
    /\ UNCHANGED <<greq, languageConfigs, contribs, dayIdx, stream, nextMark,
                   totalCommits, gdirs, gcalls>>

\* faulty variant: every turn of the inner loop starts a git process
GenCommitStartingGit ==
    /\ gpc = "commit"
    /\ LET day == contribs[dayIdx]
           selectedLang == selectLanguageByRatio(languageConfigs, totalCommits)
       IN  /\ stream' = stream \o <<CodeBlob(nextMark, selectedLang, day, i),
                                    Commit(nextMark, selectedLang, day, i)>>
           /\ nextMark' = nextMark + 1
           /\ totalCommits' = totalCommits + 1
           /\ gcalls' = Append(gcalls, GCall("git_commit", "ok"))
           /\ IF i + 1 < day.Count
              THEN /\ i' = i + 1
                   /\ UNCHANGED <<dayIdx, gpc>>
              ELSE /\ i' = i + 1
                   /\ dayIdx' = dayIdx + 1
                   /\ gpc' = "day"
    /\ UNCHANGED <<greq, languageConfigs, contribs, gdirs, gret>>

\* lines 342-375: one turn of the inner loop: a blob and its commit
GenCommit ==
    /\ gpc = "commit"
    /\ LET day == contribs[dayIdx]
           selectedLang == selectLanguageByRatio(languageConfigs, totalCommits)
       IN  /\ stream' = stream \o <<CodeBlob(nextMark, selectedLang, day, i),
                                    Commit(nextMark, selectedLang, day, i)>>
           /\ nextMark' = nextMark + 1
           /\ totalCommits' = totalCommits + 1
           /\ IF i + 1 < day.Count
              THEN /\ i' = i + 1
                   /\ UNCHANGED <<dayIdx, gpc>>
              ELSE /\ i' = i + 1
                   /\ dayIdx' = dayIdx + 1
                   /\ gpc' = "day"
    /\ UNCHANGED <<greq, languageConfigs, contribs, gdirs, gcalls, gret>>

\* lines 377-402: close the stream, import it, check out main, return
GenImport ==
    /\ gpc = "import"
    /\ \E ok \in BOOLEAN :
         IF totalCommits > 0
         THEN /\ gcalls' = gcalls \o
                    (IF ok THEN <<GCall("git_fast_import", "ok"), GCall("git_checkout", "any")>>
                     ELSE <<GCall("git_fast_import", "fail")>>)
              /\ gret' = IF ok THEN GenResponse(GenRepoPath, totalCommits)
                         ELSE GenError("fast_import_failed")
         ELSE /\ gcalls' = gcalls
              /\ gret' = GenResponse(GenRepoPath, totalCommits)
    /\ gpc' = "done"
    /\ UNCHANGED <<greq, languageConfigs, contribs, dayIdx, i, stream, nextMark,
                   totalCommits, gdirs>>

NoGenReq == [MultiLanguage |-> FALSE, Language |-> "", LanguageConfigs |-> <<>>,
             Contributions |-> <<>>]

PushIdle ==
    /\ userInfo = Nil
    /\ pc = "idle"
    /\ req = NoReq
    /\ loc = NoLoc
    /\ origin = NoRemoteURL
    /\ dirs = {}
    /\ remote = [f \in FullNames |-> NoRepoState]
    /\ remote0 = remote
    /\ calls = <<>>
    /\ ret = NoRet
    /\ outputs = <<>>

----------------------------------------------------------------------------
(* Specification of one PushToGitHub invocation *)

GenIdle ==
    /\ gpc = "idle"
    /\ greq = NoGenReq
    /\ languageConfigs = <<>>
    /\ contribs = <<>>
    /\ dayIdx = 0
    /\ i = 0
    /\ stream = <<>>
    /\ nextMark = 0
    /\ totalCommits = 0
    /\ gdirs = {}
    /\ gcalls = <<>>
    /\ gret = NoGenRet

NoRepeat == [idx |-> -1, lang |-> ""]

SelIdle ==
    /\ selCfg = <<>>
    /\ selIdx = 0
    /\ selHist = <<>>
    /\ selRepeat = NoRepeat

NormIdle ==
    /\ normIn = <<>>
    /\ normPc = "new"
    /\ normErr = "nil"
    /\ normOut = <<>>

\* NewApp leaves userInfo nil; the directory is the one GenerateRepo returned
Init ==
    /\ userInfo = Nil
    /\ pc = "idle"
    /\ req = NoReq
    /\ loc = NoLoc
    /\ origin = NoRemoteURL
    /\ dirs = {RepoPath}
    /\ remote \in RemoteInits
    /\ remote0 = remote
    /\ calls = <<>>
    /\ ret = NoRet
    /\ outputs = <<>>
    /\ GenIdle
    /\ SelIdle
    /\ NormIdle

Next ==
    \/ (\E u \in Sessions : SaveUserInfo(u)) /\ UNCHANGED <<genVars, selVars, normVars>>
    \/ Logout /\ UNCHANGED <<genVars, selVars, normVars>>
    \/ (\E r \in PushRequests : PushEnter(r)) /\ UNCHANGED <<genVars, selVars, normVars>>
    \/ PushVerify /\ UNCHANGED <<genVars, selVars, normVars>>
    \/ PushResolve /\ UNCHANGED <<genVars, selVars, normVars>>
    \/ PushConfigure /\ UNCHANGED <<genVars, selVars, normVars>>
    \/ PushFirst /\ UNCHANGED <<genVars, selVars, normVars>>
    \/ PushDeleteBranch /\ UNCHANGED <<genVars, selVars, normVars>>
    \/ PushAgain /\ UNCHANGED <<genVars, selVars, normVars>>

Spec == Init /\ [][Next]_vars

----------------------------------------------------------------------------
(* PushToGitHub with the session changing under it: the bound methods run  *)
(* on goroutines of their own and a.userInfo has no lock                    *)

InFlight == pc \in {"verify", "resolve", "configure", "push", "delete", "repush"}

\* oauth.go SaveUserInfo while PushToGitHub is between two of its steps
SaveUserInfoDuringPush(u) ==
    /\ InFlight
    /\ \E written \in BOOLEAN :
         userInfo' = IF written THEN u ELSE userInfo
    /\ UNCHANGED <<pc, req, loc, origin, dirs, remote, remote0, calls, ret, outputs>>

\* oauth.go Logout while PushToGitHub is between two of its steps
LogoutDuringPush ==
    /\ InFlight
    /\ \E removed \in BOOLEAN :
         userInfo' = IF removed THEN Nil ELSE userInfo
    /\ UNCHANGED <<pc, req, loc, origin, dirs, remote, remote0, calls, ret, outputs>>

NextConc ==
    \/ Next
    \/ (\E u \in Sessions : SaveUserInfoDuringPush(u)) /\ UNCHANGED <<genVars, selVars, normVars>>
    \/ LogoutDuringPush /\ UNCHANGED <<genVars, selVars, normVars>>

SpecConc == Init /\ [][NextConc]_vars

----------------------------------------------------------------------------
(* Claims about PushToGitHub, checked under Spec *)

NumPushes  == CountIf(calls, LAMBDA c : c.op = "git_push")
NumDeletes == CountIf(calls, LAMBDA c : c.op = "git_push_delete")
NumRemoves == CountIf(calls, LAMBDA c : c.op = "remove_all")

\* the push and branch-deletion commands of the invocation, in order
GitPushCalls == SelectSeq(calls, LAMBDA c : c.op \in {"git_push", "git_push_delete"})

FirstPushFailed == Len(GitPushCalls) >= 1 /\ GitPushCalls[1].res = "fail"

NotLoggedIn == userInfo.isNil \/ userInfo.Token = ""

VerifyFailed == \E k \in 1 .. Len(calls) :
                    calls[k].op = "http_verify" /\ calls[k].res # "nil"

MutatingOps == {"http_create", "git_remote_add", "git_remote_set_url",
                "git_push", "git_push_delete"}

\* C1: once PushToGitHub has returned, on every exit path, req.RepoPath has
\* been deleted and os.RemoveAll ran exactly once in the invocation.
C1_DirectoryDeletedOnceOnEveryExit ==
    ret.returned => (req.RepoPath \notin dirs /\ NumRemoves = 1)

\* C2: an invocation issues at most two push commands and at most one remote
\* branch deletion, whatever the external calls answer.
C2_AtMostTwoPushesOneDelete == NumPushes <= 2 /\ NumDeletes <= 1

C2_Witness == ret.returned /\ NumPushes = 2 /\ NumDeletes = 1

\* C3: with ForcePush false and the push failing, the call returns
\* Success=false with the "remote may already have content" message after
\* exactly one push, no branch deletion and no second push.
C3_NonForceRejected ==
    (~req.ForcePush /\ FirstPushFailed) =>
        /\ ret.returned /\ pc = "done"
        /\ ~ret.Success
        /\ ret.Message = "push_failed_try_force"
        /\ NumPushes = 1
        /\ NumDeletes = 0

C3_Witness == ~req.ForcePush /\ FirstPushFailed /\ ret.returned

\* C4: with ForcePush true and the first push failing, the call deletes the
\* target remote branch, then pushes the same refspec main:<target> exactly
\* once more, in that order; a failed second push gives Success=false with
\* the branch-protection message and nothing further, a successful one
\* gives Success=true.
C4_ForceRecoverySequence ==
    (req.ForcePush /\ FirstPushFailed) =>
        LET g == GitPushCalls IN
        /\ Len(g) <= 3
        /\ GitPushCalls[1].path = <<"main", loc.targetBranch>>
        /\ Len(g) >= 2 => (g[2].op = "git_push_delete" /\ g[2].branch = loc.targetBranch)
        /\ Len(g) >= 3 => (g[3].op = "git_push" /\ g[3].path = g[1].path)
        /\ Len(g) < 3 => ~ret.returned
        /\ Len(g) = 3 =>
             /\ ret.returned /\ pc = "done"
             /\ g[3].res = "fail" =>
                  (~ret.Success /\ ret.Message = "force_push_failed_check_protection")
             /\ g[3].res = "ok" => ret.Success

C4_Witness ==
    /\ req.ForcePush /\ FirstPushFailed /\ ret.returned
    /\ Len(GitPushCalls) = 3 /\ GitPushCalls[2].res = "ok"
    /\ GitPushCalls[3].res = "fail"

\* the place of each external call in the order verify, create, configure, push
StepRank(op) ==
    CASE op = "http_verify" -> 1
      [] op = "http_create" -> 2
      [] op \in {"git_remote_add", "git_remote_set_url"} -> 3
      [] op \in {"git_push", "git_push_delete"} -> 4
      [] OTHER -> 5

HasCall(op) == \E k \in 1 .. Len(calls) : calls[k].op = op

C6_RemoteUnchangedOnNonForceFailure ==
    (ret.returned /\ ~req.ForcePush /\ ~ret.Success) => remote = remote0

\* C7: PushToGitHub never returns a Go error; every failure is a response
\* with Success=false and a message; Success=true is returned only when the
\* first push or the recovery push succeeded, and only then is RepoURL set.
C7_FailuresAreResponses ==
    /\ ret.err = "nil"
    /\ (pc = "done") = ret.returned
    /\ ret.returned =>
          /\ ret.Message # ""
          /\ ret.Success =
                (Len(GitPushCalls) >= 1 /\ GitPushCalls[Len(GitPushCalls)].op = "git_push"
                   /\ GitPushCalls[Len(GitPushCalls)].res = "ok")
          /\ (ret.RepoURL # <<>>) = ret.Success

C7_Witness ==
    /\ ret.returned /\ ret.Success /\ Len(GitPushCalls) = 3
    /\ ret.RepoURL # <<>>

----------------------------------------------------------------------------
(* Specification of one GenerateRepo invocation *)

InitGen == PushIdle /\ GenIdle /\ SelIdle /\ NormIdle

NextGen ==
    \/ (\E r \in GenerateRequests : GenEnter(r)) /\ UNCHANGED <<pushVars, selVars, normVars>>
    \/ GenMakeDirs /\ UNCHANGED <<pushVars, selVars, normVars>>
    \/ GenWriteFiles /\ UNCHANGED <<pushVars, selVars, normVars>>
    \/ GenGitInit /\ UNCHANGED <<pushVars, selVars, normVars>>
    \/ GenSort /\ UNCHANGED <<pushVars, selVars, normVars>>
    \/ GenDay /\ UNCHANGED <<pushVars, selVars, normVars>>
    \/ GenCommit /\ UNCHANGED <<pushVars, selVars, normVars>>
    \/ GenImport /\ UNCHANGED <<pushVars, selVars, normVars>>

SpecGen == InitGen /\ [][NextGen]_vars

----------------------------------------------------------------------------
(* Claims about GenerateRepo, checked under SpecGen *)

CommitsOf(st) == SelectSeq(st, LAMBDA o : o.kind = "commit")

\* the loops of lines 337-376 have run to their end
StreamComplete == gpc \in {"import", "done"} /\ stream # <<>> /\ dayIdx > Len(contribs)

GenSucceeded == gret.returned /\ gret.err = "nil"

\* C8: for every request that passes validation and whose dates parse, the
\* number of commits in the stream and the CommitCount GenerateRepo returns
\* equal the sum of the counts of all contribution days.
C8_CommitCountIsSumOfCounts ==
    /\ StreamComplete =>
          /\ Len(CommitsOf(stream)) = SumCounts(greq.Contributions)
          /\ totalCommits = SumCounts(greq.Contributions)
    /\ GenSucceeded =>
          /\ StreamComplete
          /\ gret.CommitCount = SumCounts(greq.Contributions)

C8_Witness ==
    /\ GenSucceeded
    /\ gret.CommitCount = 3
    /\ Len(greq.Contributions) = 2

\* timestamps never go back in emission order, and two commits of one date
\* never share a timestamp
TimestampsOrdered(cm) ==
    \A j, k \in 1 .. Len(cm) :
        j < k => /\ cm[j].ts <= cm[k].ts
                 /\ cm[j].date = cm[k].date => cm[j].ts < cm[k].ts

\* C9 as claimed: for any contribution list accepted by validation (unsorted,
\* with duplicate dates, with any count), commit timestamps are
\* non-decreasing in emission order and strictly increasing among the
\* commits of one date.
C9_TimestampsOrderedForAnyAcceptedList == TimestampsOrdered(CommitsOf(stream))

DistinctDates(cs) ==
    \A j, k \in 1 .. Len(cs) : j # k => cs[j].Date # cs[k].Date

\* C9 amended: the same, for accepted lists whose days with a positive count
\* have pairwise distinct dates and counts of at most 86400 (the seconds of a
\* day); the list may be unsorted.
C9_TimestampsOrderedForDistinctDates ==
    LET days == SelectSeq(greq.Contributions, LAMBDA c : c.Count > 0) IN
    (/\ DistinctDates(days)
     /\ \A k \in 1 .. Len(days) : days[k].Count <= SecondsPerDay)
        => TimestampsOrdered(CommitsOf(stream))

C9_Witness ==
    /\ StreamComplete
    /\ Len(greq.Contributions) = 2
    /\ greq.Contributions[1].Count = 2
    /\ greq.Contributions[2].Count = 1
    /\ DateLess(greq.Contributions[2].Date, greq.Contributions[1].Date)
    /\ Len(CommitsOf(stream)) = 3

----------------------------------------------------------------------------
(* selectLanguageByRatio applied to consecutive commit indices *)

MaxRatio   == 2
MaxConfigs == 2
MaxRepeat  == 2

SelLanguages == {"vue", "typescript"}

SelConfigs == SeqsUpTo([Language : SelLanguages, Ratio : 0 .. MaxRatio], MaxConfigs)

\* the two-language lists of the documented scenarios: go and python at 50
\* each, and 80/20 between two languages of one byte cost (650, 550, and the
\* 500 of sql and of a language the table does not know)
GoPython == <<LanguageConfig("go", 50), LanguageConfig("python", 50)>>

EqualCost8020 ==
    { <<LanguageConfig("java", 80), LanguageConfig("python", 20)>>,
      <<LanguageConfig("c", 80), LanguageConfig("javascript", 20)>>,
      <<LanguageConfig("zig", 80), LanguageConfig("sql", 20)>> }

SelScenarios == {GoPython} \cup EqualCost8020

\* equal ratios 1..100 for two languages, the first of twice the byte cost of
\* the second: vue 1300 and java 650, html 900 and shell 450
DoubleCostPairs ==
    { <<LanguageConfig(p[1], r), LanguageConfig(p[2], r)>> :
        p \in {<<"vue", "java">>, <<"html", "shell">>}, r \in 1 .. 100 }

SelTotalWeight == TotalWeight(Weighted(selCfg))

\* how many consecutive indices the harness asks for: two cycles for the
\* small lists, one for the scenarios, a few for the lists of equal ratios
SelHorizon ==
    IF selCfg \in SelScenarios THEN SelTotalWeight + MaxConfigs
    ELSE IF selCfg \in DoubleCostPairs THEN MaxConfigs
    ELSE 2 * SelTotalWeight + MaxConfigs

InitSel ==
    /\ PushIdle
    /\ GenIdle
    /\ NormIdle
    /\ selCfg \in SelConfigs \cup SelScenarios \cup DoubleCostPairs
    /\ selIdx = 0
    /\ selHist = <<>>
    /\ selRepeat = NoRepeat

\* app.go line 344 in the loop of lines 337-376: the call for the next index
SelectNext ==
    /\ selIdx < SelHorizon
    /\ selHist' = Append(selHist, selectLanguageByRatio(selCfg, selIdx))
    /\ selIdx' = selIdx + 1
    /\ selRepeat' = NoRepeat
    /\ UNCHANGED selCfg

\* a second call with the list and one of the latest MaxRepeat indices
SelectAgain ==
    /\ \E idx \in 0 .. selIdx - 1 :
         /\ idx >= selIdx - MaxRepeat
         /\ selRepeat' = [idx |-> idx, lang |-> selectLanguageByRatio(selCfg, idx)]
    /\ UNCHANGED <<selCfg, selIdx, selHist>>

NextSel ==
    \/ SelectNext /\ UNCHANGED <<pushVars, genVars, normVars>>
    \/ SelectAgain /\ UNCHANGED <<pushVars, genVars, normVars>>

SpecSel == InitSel /\ [][NextSel]_vars

\* the weight of a language: the weights of its entries, added
RECURSIVE LanguageWeight(_, _)
LanguageWeight(weighted, lang) ==
    IF weighted = <<>> THEN 0
    ELSE (IF Head(weighted).language = lang THEN Head(weighted).weight ELSE 0)
         + LanguageWeight(Tail(weighted), lang)

\* how often lang was returned for the last n indices
TimesInLast(n, lang) ==
    Cardinality({k \in (Len(selHist) - n + 1) .. Len(selHist) : selHist[k] = lang})

\* C10: with at least two entries and a positive ratio among them, over any
\* totalWeight consecutive commit indices each language is selected exactly
\* as many times as its weight.
C10_FullCycleMatchesWeights ==
    (/\ Len(selCfg) >= 2
     /\ \E k \in 1 .. Len(selCfg) : selCfg[k].Ratio > 0
     /\ Len(selHist) >= SelTotalWeight)
        => \A k \in 1 .. Len(selCfg) :
              TimesInLast(SelTotalWeight, selCfg[k].Language)
                 = LanguageWeight(Weighted(selCfg), selCfg[k].Language)

C10_Witness ==
    /\ Len(selCfg) = 2
    /\ selCfg[1] = LanguageConfig("vue", 2)
    /\ selCfg[2] = LanguageConfig("typescript", 1)
    /\ Len(selHist) = SelTotalWeight + 3
    /\ TimesInLast(SelTotalWeight, "vue") = 15
    /\ TimesInLast(SelTotalWeight, "typescript") = 10

\* how often lang was returned for the first n indices
TimesInFirst(n, lang) == Cardinality({k \in 1 .. n : selHist[k] = lang})

\* w is the whole part of ratio * 10000 / bytes, and 1 when that is below 1
IsFlooredWeight(config, w) ==
    LET bytes == getLanguageCodeBytes(config.Language)
        num   == config.Ratio * 10000
    IN  IF num < bytes THEN w = 1
        ELSE w * bytes <= num /\ num < (w + 1) * bytes

\* C11: the weight of an entry with ratio r > 0 is max(1, floor(r * 10000 /
\* bytes of its language)); for go and python at 50 each the weights are 588
\* and 769, 1357 together, and over the commit indices 0..1356 go is selected
\* 588 times and python 769 times.
C11_GoPythonWeightsAndCounts ==
    /\ \A k \in 1 .. Len(selCfg) :
          selCfg[k].Ratio > 0 => IsFlooredWeight(selCfg[k], EntryWeight(selCfg[k]))
    /\ selCfg = GoPython =>
          /\ Weighted(selCfg) = << [language |-> "go", weight |-> 588],
                                   [language |-> "python", weight |-> 769] >>
          /\ SelTotalWeight = 1357
          /\ Len(selHist) >= 1357 =>
                /\ TimesInFirst(1357, "go") = 588
                /\ TimesInFirst(1357, "python") = 769

C11_Witness ==
    /\ selCfg = GoPython
    /\ Len(selHist) = 1357
    /\ selHist[1] = "go"
    /\ selHist[1357] = "python"

\* the distance between a share n/total and pct percent is at most one
\* percentage point
WithinOnePoint(n, total, pct) ==
    /\ 100 * n - pct * total <= total
    /\ pct * total - 100 * n <= total

\* C12: for two languages with the same byte cost and ratios 80 and 20, over
\* one full cycle of totalWeight consecutive commit indices the first
\* language gets a share of the commits within one percentage point of 80%
\* and the second within one percentage point of 20%.
C12_EqualCostSplitIs8020 ==
    (/\ Len(selCfg) = 2
     /\ selCfg[1].Ratio = 80
     /\ selCfg[2].Ratio = 20
     /\ selCfg[1].Language # selCfg[2].Language
     /\ getLanguageCodeBytes(selCfg[1].Language) = getLanguageCodeBytes(selCfg[2].Language)
     /\ Len(selHist) >= SelTotalWeight)
        => /\ WithinOnePoint(TimesInLast(SelTotalWeight, selCfg[1].Language),
                             SelTotalWeight, 80)
           /\ WithinOnePoint(TimesInLast(SelTotalWeight, selCfg[2].Language),
                             SelTotalWeight, 20)

C12_Witness ==
    /\ selCfg = <<LanguageConfig("java", 80), LanguageConfig("python", 20)>>
    /\ Len(selHist) = SelTotalWeight + 1
    /\ TimesInLast(SelTotalWeight, "java") = 1230
    /\ TimesInLast(SelTotalWeight, "python") = 307

----------------------------------------------------------------------------
(* Further claims about GenerateRepo, checked under SpecGen *)

GenEntered == gpc # "idle"

GenFailed == gret.returned /\ gret.err # "nil"

ValidationErrors == {"no_language", "language_empty", "ratio_negative",
                     "ratio_above_100", "ratio_sum_zero"}

\* the faults of a language list the claim names
ListEmpty(cfgs)     == Len(cfgs) = 0
RatioOutside(cfgs)  == \E k \in 1 .. Len(cfgs) : cfgs[k].Ratio < 0 \/ cfgs[k].Ratio > 100
LanguageBlank(cfgs) == \E k \in 1 .. Len(cfgs) : cfgs[k].Language = ""
RatiosAddToZero(cfgs) == SumRatios(cfgs) = 0

\* C14: a request with MultiLanguage set is rejected with a validation error
\* when its language list is empty, when a ratio is below 0 or above 100,
\* when a language identifier is empty, or when the ratios add up to 0.
C14_MultiLanguageFaultsRejected ==
    (/\ GenEntered
     /\ greq.MultiLanguage
     /\ \/ ListEmpty(greq.LanguageConfigs)
        \/ RatioOutside(greq.LanguageConfigs)
        \/ LanguageBlank(greq.LanguageConfigs)
        \/ RatiosAddToZero(greq.LanguageConfigs))
        => (gret.returned /\ gret.err \in ValidationErrors)

\* the part of C14 the code keeps: the same, for a list that is not empty
MultiLanguageFaultsRejectedNonEmpty ==
    (/\ GenEntered
     /\ greq.MultiLanguage
     /\ ~ListEmpty(greq.LanguageConfigs)
     /\ \/ RatioOutside(greq.LanguageConfigs)
        \/ LanguageBlank(greq.LanguageConfigs)
        \/ RatiosAddToZero(greq.LanguageConfigs))
        => (gret.returned /\ gret.err \in ValidationErrors)

\* what C15 calls a request to reject
InvalidRequest(r) ==
    \/ r.MultiLanguage /\ ~ListEmpty(r.LanguageConfigs)
          /\ (RatioOutside(r.LanguageConfigs) \/ RatiosAddToZero(r.LanguageConfigs))
    \/ Len(r.Contributions) = 0
    \/ \E k \in 1 .. Len(r.Contributions) : r.Contributions[k].Count < 0
    \/ \A k \in 1 .. Len(r.Contributions) : r.Contributions[k].Count <= 0

\* C15: a request with invalid language ratios, an empty contribution list,
\* a negative count or no day with a positive count is rejected, and when it
\* is, no directory or file was created, no git command run, no stream
\* started and no remote call made.
C15_InvalidRequestRejectedBeforeEffects ==
    (GenEntered /\ InvalidRequest(greq))
        => /\ GenFailed
           /\ gcalls = <<>>
           /\ gdirs = {}
           /\ stream = <<>>
           /\ calls = <<>>
           /\ remote = remote0

C15_Witness ==
    /\ GenFailed
    /\ gret.err = "invalid_count"
    /\ Len(greq.Contributions) = 2
    /\ greq.Contributions[1].Count > 0
    /\ greq.Contributions[2].Count < 0
    /\ gcalls = <<>>

\* C16: when GenerateRepo has failed after creating the repository
\* directory, the directory is gone once the call has returned.
C16_NoDirectoryLeftAfterFailure ==
    GenFailed => GenRepoPath \notin gdirs

BlobsOf(st) == SelectSeq(st, LAMBDA o : o.kind = "blob")

\* the marks of the blobs at positions before p of the stream
MarksBefore(st, p) == {st[q].mark : q \in {q \in 1 .. p - 1 : st[q].kind = "blob"}}

\* C19: the blob marks of the stream are 1 (README), 2, 3, ... in this order,
\* none used twice; every commit references mark 1 and the mark of the blob
\* right before it, both defined earlier in the stream, and the k-th commit
\* references marks 1 and k+1.
C19_MarksIncreaseAndAreDefined ==
    /\ \A k \in 1 .. Len(BlobsOf(stream)) : BlobsOf(stream)[k].mark = k
    /\ stream # <<>> => stream[1] = ReadmeBlob
    /\ \A p \in 1 .. Len(stream) :
          stream[p].kind = "commit" =>
             /\ p > 1
             /\ stream[p - 1].kind = "blob"
             /\ stream[p].refs = <<1, stream[p - 1].mark>>
             /\ \A r \in 1 .. Len(stream[p].refs) :
                   stream[p].refs[r] \in MarksBefore(stream, p)
    /\ \A k \in 1 .. Len(CommitsOf(stream)) : CommitsOf(stream)[k].refs = <<1, k + 1>>

C19_Witness ==
    /\ Len(stream) = 7
    /\ stream[7].kind = "commit"
    /\ stream[7].refs = <<1, 4>>
    /\ stream[6].mark = 4

\* UTC midnight of the dates that parse, in seconds since 1970-01-01
Midnight(dt) ==
    CASE dt = Date(2024, 2, 28) -> 1709078400
      [] dt = Date(2024, 2, 29) -> 1709164800

\* commits emitted for the days before day d of the sorted list
CommitsBeforeDay(d) == SumCounts(SubSeq(contribs, 1, d - 1))

\* C20: for each day of the filtered, sorted list with count c, c commits are
\* emitted one after the other, and the j-th of them (j = 1..c) carries the
\* time of that date's midnight plus j-1 seconds and the message
\* "Contribution on <date> (j/c)".
C20_DayCommitsTimedAndNumbered ==
    LET cm == CommitsOf(stream) IN
    /\ \A d \in 1 .. Len(contribs) : \A j \in 1 .. contribs[d].Count :
          CommitsBeforeDay(d) + j <= Len(cm) =>
             LET c == cm[CommitsBeforeDay(d) + j] IN
             /\ c.date = contribs[d].Date
             /\ c.ts = Midnight(contribs[d].Date) + (j - 1)
             /\ c.n = j
             /\ c.of = contribs[d].Count
    /\ \A d \in 1 .. Len(contribs) :
          (gpc \in {"day", "import", "done"} /\ dayIdx > d) =>
             Len(cm) >= CommitsBeforeDay(d) + contribs[d].Count
    /\ StreamComplete => Len(cm) = SumCounts(contribs)

C20_Witness ==
    /\ StreamComplete
    /\ Len(contribs) = 2
    /\ contribs[1] = ContributionDay(Date(2024, 2, 28), 2)
    /\ contribs[2] = ContributionDay(Date(2024, 2, 29), 2)
    /\ CommitsOf(stream)[2].ts = 1709078401
    /\ CommitsOf(stream)[2].n = 2
    /\ CommitsOf(stream)[3].ts = 1709164800
    /\ CommitsOf(stream)[3].n = 1

----------------------------------------------------------------------------
(* Further claims about PushToGitHub, checked under Spec *)

\* the commands the push URL is an argument of
RemoteConfigOps == {"git_remote_add", "git_remote_set_url"}

\* C17: the push URL that holds the token is an argument of git remote add
\* and git remote set-url only, and no log entry and no progress event
\* written by the invocation holds it, on any path, failures of the git
\* commands included. (The response is put together from fixed messages,
\* the errors of the two HTTP calls and the page URL, which has no token.)
C17_PushURLNeverWritten ==
    /\ \A k \in 1 .. Len(calls) :
          (calls[k].op \in {"git_push", "git_push_delete", "remove_all"})
              => calls[k].token = ""
    /\ \A k \in 1 .. Len(outputs) : outputs[k].url = NoRemoteURL

\* the log and the events up to the second push hold no push URL
NoURLWrittenBeforeSecondPushFails ==
    \A k \in 1 .. Len(outputs) : outputs[k].line # 334 => outputs[k].url = NoRemoteURL

NumCreates == CountIf(calls, LAMBDA c : c.op = "http_create")

\* the page URL the host returns for a repository it created
CreatedRepoURL == <<"github.com", TokenOwner(userInfo.Token)>> \o req.RepoName

\* C18: with IsNewRepo one creation request is made, after the verification;
\* every push then goes to the default branch the host returned for the new
\* repository, and a successful response carries the URL the host returned;
\* without IsNewRepo no creation request is made.
C18_NewRepoCreatedOnceAndPushedToItsDefaultBranch ==
    /\ ~req.IsNewRepo => NumCreates = 0
    /\ req.IsNewRepo =>
          /\ NumCreates <= 1
          /\ pc \in {"configure", "push", "delete", "repush"} => NumCreates = 1
          /\ \A k \in 1 .. Len(calls) :
                calls[k].op = "http_create" =>
                   \E j \in 1 .. k - 1 : calls[j].op = "http_verify" /\ calls[j].res = "nil"
          /\ \A k \in 1 .. Len(calls) :
                calls[k].op = "git_push" => calls[k].branch = loc.defaultBranch
          /\ (ret.returned /\ ret.Success) =>
                (NumCreates = 1 /\ ret.RepoURL = CreatedRepoURL)

\* the part of C18 the code keeps: everything but the branch, which is
\* req.Branch, or main when that is empty
NewRepoCreatedOnceAndPushedToRequestedBranch ==
    /\ ~req.IsNewRepo => NumCreates = 0
    /\ req.IsNewRepo =>
          /\ NumCreates <= 1
          /\ pc \in {"configure", "push", "delete", "repush"} => NumCreates = 1
          /\ \A k \in 1 .. Len(calls) :
                calls[k].op = "http_create" =>
                   \E j \in 1 .. k - 1 : calls[j].op = "http_verify" /\ calls[j].res = "nil"
          /\ \A k \in 1 .. Len(calls) :
                calls[k].op = "git_push" => calls[k].branch = TargetBranch(req)
          /\ (ret.returned /\ ret.Success) =>
                (NumCreates = 1 /\ ret.RepoURL = CreatedRepoURL)

----------------------------------------------------------------------------
(* validateLanguageConfigs and normalizeLanguageConfigs applied to a list, *)
(* as GenerateRepo does at lines 194-201                                   *)

MaxNormLen == 3

\* entries of the lists: ratios on both sides of every check, a blank
\* language, sums inside and outside the tolerance of 95..105
NormEntries ==
    [Language : {"vue", "java"}, Ratio : {0, 1, 6, 30, 100}]
        \cup {LanguageConfig("", 50), LanguageConfig("go", -1), LanguageConfig("go", 101)}

\* a list of 101 languages at ratio 100 each: every check of the validation
\* is per entry, none bounds the length
ManyLanguages == [k \in 1 .. 101 |-> LanguageConfig(ToString(k), 100)]

NormLists == SeqsUpTo(NormEntries, MaxNormLen) \cup {ManyLanguages}

InitNorm ==
    /\ PushIdle
    /\ GenIdle
    /\ SelIdle
    /\ normIn \in NormLists
    /\ normPc = "new"
    /\ normErr = "nil"
    /\ normOut = <<>>

\* app.go lines 194-198
NormValidate ==
    /\ normPc = "new"
    /\ normErr' = validateLanguageConfigs(normIn)
    /\ normPc' = IF validateLanguageConfigs(normIn) = "nil" THEN "valid" ELSE "rejected"
    /\ UNCHANGED <<normIn, normOut>>

\* app.go line 201
NormNormalize ==
    /\ normPc = "valid"
    /\ normOut' = normalizeLanguageConfigs(normIn)
    /\ normPc' = "normalized"
    /\ UNCHANGED <<normIn, normErr>>

NextNorm ==
    \/ NormValidate /\ UNCHANGED <<pushVars, genVars, selVars>>
    \/ NormNormalize /\ UNCHANGED <<pushVars, genVars, selVars>>

SpecNorm == InitNorm /\ [][NextNorm]_vars

Normalized == normPc = "normalized"

LanguagesOf(cfgs) == {cfgs[k].Language : k \in 1 .. Len(cfgs)}

\* C21: for every list accepted by the validation and then normalized, every
\* weight computed from it is a positive integer and the total weight is at
\* least the number of distinct languages of the list.
C21_WeightsPositiveTotalCoversLanguages ==
    Normalized =>
        /\ \A k \in 1 .. Len(Weighted(normOut)) : Weighted(normOut)[k].weight >= 1
        /\ TotalWeight(Weighted(normOut)) >= Cardinality(LanguagesOf(normOut))

\* the part of C21 the code keeps: the weights are positive, and the total
\* covers the languages that still have a positive ratio
WeightsPositiveTotalCoversKeptLanguages ==
    Normalized =>
        /\ \A k \in 1 .. Len(Weighted(normOut)) : Weighted(normOut)[k].weight >= 1
        /\ TotalWeight(Weighted(normOut)) >=
              Cardinality({normOut[k].Language :
                              k \in {j \in 1 .. Len(normOut) : normOut[j].Ratio > 0}})

\* lang is returned for one of the indices 0 .. totalWeight-1
SelectedInCycle(cfgs, lang) ==
    \E idx \in 0 .. TotalWeight(Weighted(cfgs)) - 1 :
        selectLanguageByRatio(cfgs, idx) = lang

\* C23: every language the caller gave a positive ratio still has a positive
\* ratio after normalizeLanguageConfigs, hence a weight of at least 1, and
\* is selected at least once in every full cycle of totalWeight commits.
C23_PositiveRatioSurvivesNormalization ==
    Normalized =>
        \A k \in 1 .. Len(normIn) :
            normIn[k].Ratio > 0 =>
                /\ normOut[k].Language = normIn[k].Language
                /\ normOut[k].Ratio > 0
                /\ Len(normOut) >= 2 => SelectedInCycle(normOut, normIn[k].Language)

\* the ratio is the whole part of r * 100 / sum
IsRescaled(r, sum, out) == out * sum <= r * 100 /\ r * 100 < (out + 1) * sum

\* C26: normalizeLanguageConfigs returns the list as it is when the ratios
\* add up to 95..105, and otherwise replaces every ratio r by
\* floor(r * 100 / sum), with the languages and their order kept.
C26_UnchangedInToleranceElseRescaled ==
    Normalized =>
        LET sum == SumSeq([k \in 1 .. Len(normIn) |-> normIn[k].Ratio]) IN
        /\ Len(normOut) = Len(normIn)
        /\ \A k \in 1 .. Len(normIn) : normOut[k].Language = normIn[k].Language
        /\ (sum >= 95 /\ sum <= 105) => normOut = normIn
        /\ (sum < 95 \/ sum > 105) =>
              \A k \in 1 .. Len(normIn) : IsRescaled(normIn[k].Ratio, sum, normOut[k].Ratio)

C26_Witness ==
    /\ Normalized
    /\ normIn = <<LanguageConfig("vue", 100), LanguageConfig("java", 6)>>
    /\ normOut = <<LanguageConfig("vue", 94), LanguageConfig("java", 5)>>

\* C27: for a validated list of n entries whose ratios add up to a sum
\* outside 95..105, the rescaled ratios add up to at most 100 and to more
\* than 100 - n.
C27_RescaledSumNearHundred ==
    Normalized =>
        LET sum == SumSeq([k \in 1 .. Len(normIn) |-> normIn[k].Ratio])
            out == SumSeq([k \in 1 .. Len(normOut) |-> normOut[k].Ratio])
        IN  (sum < 95 \/ sum > 105) => (out <= 100 /\ out > 100 - Len(normIn))

C27_Witness ==
    /\ Normalized
    /\ normIn = <<LanguageConfig("vue", 100), LanguageConfig("java", 30)>>
    /\ normOut = <<LanguageConfig("vue", 76), LanguageConfig("java", 23)>>

----------------------------------------------------------------------------
(* Further claims about selectLanguageByRatio, checked under SpecSel *)

\* the weights of the first j entries with a positive ratio, added
WeightUpTo(j) == TotalWeight(SubSeq(Weighted(selCfg), 1, j))

\* the entry whose block of positions holds pos
BlockOf(pos) ==
    CHOOSE j \in 1 .. Len(Weighted(selCfg)) : WeightUpTo(j - 1) <= pos /\ pos < WeightUpTo(j)

\* C22: the languages get blocks of consecutive positions in the order of
\* the list, they do not take turns: an index p with p mod totalWeight below
\* the weight w1 of the first entry with a positive ratio yields that entry's
\* language, so a history of at most w1 commits has that language only.
C22_ContiguousBlocksInListOrder ==
    (Len(selCfg) >= 2 /\ SelTotalWeight > 0 /\ Len(selHist) >= 1) =>
        LET pos   == (Len(selHist) - 1) % SelTotalWeight
            first == Weighted(selCfg)[1]
        IN  /\ selHist[Len(selHist)] = Weighted(selCfg)[BlockOf(pos)].language
            /\ pos < first.weight => selHist[Len(selHist)] = first.language
            /\ Len(selHist) <= first.weight =>
                  {selHist[k] : k \in 1 .. Len(selHist)} = {first.language}

C22_Witness ==
    /\ selCfg = <<LanguageConfig("vue", 2), LanguageConfig("typescript", 1)>>
    /\ Len(selHist) = 16
    /\ \A k \in 1 .. 15 : selHist[k] = "vue"
    /\ selHist[16] = "typescript"

C29_SingleEntryAndZeroWeightFallback ==
    /\ Len(selCfg) = 1 =>
          \A k \in 1 .. Len(selHist) : selHist[k] = selCfg[1].Language
    /\ (Len(selCfg) >= 2 /\ SelTotalWeight = 0) =>
          \A k \in 1 .. Len(selHist) : selHist[k] = selCfg[1].Language

C29_Witness ==
    /\ selCfg = <<LanguageConfig("typescript", 0), LanguageConfig("vue", 0)>>
    /\ Len(selHist) = 2
    /\ selHist[2] = "typescript"

----------------------------------------------------------------------------
(* The recovery path and the session of PushToGitHub *)

\* C24: on the recovery path the second push follows the branch deletion
\* whether the deletion succeeded or failed, and the invocation answers
\* Success exactly when that second push succeeded.
C24_SecondPushIgnoresDeletionResult ==
    LET g == GitPushCalls IN
    /\ pc = "delete" => (Len(g) = 1 /\ ~ret.returned)
    /\ (Len(g) = 2 /\ g[2].op = "git_push_delete") => (pc = "repush" /\ ~ret.returned)
    /\ (Len(g) = 3 /\ g[2].op = "git_push_delete") =>
          /\ g[3].op = "git_push"
          /\ ret.returned
          /\ ret.Success = (g[3].res = "ok")

C24_Witness ==
    /\ ret.returned /\ ret.Success
    /\ Len(GitPushCalls) = 3
    /\ GitPushCalls[2].op = "git_push_delete"
    /\ GitPushCalls[2].res = "fail"
    /\ GitPushCalls[3].res = "ok"

\* C25: the token VerifyGitHubToken checked, the token in the remote URL and
\* the username the remote URL was built with belong to one login session,
\* and userInfo is not dereferenced once it is nil, also when Logout or
\* SaveUserInfo run while the push is under way.
C25_OneSessionThroughoutPush ==
    /\ pc # "panic"
    /\ \A k \in 1 .. Len(calls) :
          calls[k].op \in RemoteConfigOps =>
             /\ \E j \in 1 .. k - 1 :
                   /\ calls[j].op = "http_verify"
                   /\ calls[j].res = "nil"
                   /\ calls[j].token = calls[k].token
             /\ ~HasSlash(req.RepoName) => calls[k].path[1] = TokenOwner(calls[k].token)

----------------------------------------------------------------------------
(* The git processes of GenerateRepo, checked under SpecGen *)

GitCallsOf(cs) == SelectSeq(cs, LAMBDA c : c.op \notin {"mkdir_base", "mkdir_temp",
                                                       "write_readme", "write_additional"})

NumImports == CountIf(gcalls, LAMBDA c : c.op = "git_fast_import")

\* C30: a GenerateRepo that succeeds has run git fast-import once for the
\* whole history, however many commits there are, after git init and the
\* identity settings; git checkout runs only after the import succeeded,
\* and the loop that builds the commits starts no git process.
C30_OneImportForTheWholeHistory ==
    LET g == GitCallsOf(gcalls) IN
    /\ NumImports <= 1
    /\ gpc \in {"sort", "day", "commit", "import"} =>
          g = <<GCall("git_init", "ok"), GCall("git_config_name", "ok"),
                GCall("git_config_email", "ok"), GCall("git_config_tuning", "any")>>
    /\ \A k \in 1 .. Len(g) :
          g[k].op = "git_checkout" => (k > 1 /\ g[k - 1] = GCall("git_fast_import", "ok"))
    /\ GenSucceeded =>
          g = <<GCall("git_init", "ok"), GCall("git_config_name", "ok"),
                GCall("git_config_email", "ok"), GCall("git_config_tuning", "any"),
                GCall("git_fast_import", "ok"), GCall("git_checkout", "any")>>

C30_Witness ==
    /\ GenSucceeded
    /\ gret.CommitCount = 4
    /\ NumImports = 1
    /\ Len(GitCallsOf(gcalls)) = 6

====
